---- MODULE Spec2Model ----
(***************************************************************************)
(* State-machine model of .github/scripts/version-sync.py: the JSON        *)
(* backing file version-mapping.json, the module-level SCHEMA_TEMPLATE     *)
(* dictionary of the running interpreter, and the three commands           *)
(* get-upstream, save-mapping and list.                                    *)
(*                                                                         *)
(* JSON values are tagged records [t |-> type, v |-> payload] wherever the *)
(* script dispatches on the type (the document, its three structured       *)
(* fields, the elements of sync_history).  Mapping values and the fields   *)
(* of an event are plain strings.                                          *)
(***************************************************************************)
EXTENDS Integers, Sequences, FiniteSets, TLC

VARIABLES
    MAPPING_FILE,     \* content of version-mapping.json
    SCHEMA_TEMPLATE,  \* the module-level dict of the running interpreter
    clock,            \* the UTC clock, in seconds
    last,             \* the operation that ran last: arguments, outcome, exit code, file I/O
    log,              \* the entries appended by the save calls that succeeded, in call order
    clean,            \* every save call so far succeeded or was rejected by validation
    nops,             \* operations run so far
    fresh,            \* upstream versions handed out so far (sequential runs)
    pc,               \* racing save-mapping processes: position of each
    mem               \* racing save-mapping processes: mapping_data of each

vars == <<MAPPING_FILE, SCHEMA_TEMPLATE, clock, last, log, clean, nops, fresh, pc, mem>>

----------------------------------------------------------------------------
(* Program constant and model bounds *)

MAX_HISTORY == 20

MaxOps == 2        \* operations in one run of Spec
MaxClock == 2      \* seconds the clock may advance in one run of Spec
MaxTagLen == 4     \* characters of a release tag
MaxFresh == 22     \* save calls with a new upstream version in one run of SpecSeq
MaxExtra == 1      \* other save calls (repeated version, failed write, rejected) in such a run

----------------------------------------------------------------------------
(* JSON values *)

JObj(m) == [t |-> "obj", v |-> m]
JArr(s) == [t |-> "arr", v |-> s]
JStr(s) == [t |-> "str", v |-> s]
JNum(n) == [t |-> "num", v |-> n]
JNull == [t |-> "null", v |-> 0]

EmptyMap == <<>>

Absent == [t |-> "absent", v |-> 0]         \* the file does not exist
Malformed == [t |-> "malformed", v |-> 0]   \* the file exists and is not JSON
Json(raw) == [t |-> "json", v |-> raw]      \* the file holds the JSON value raw

Fields == {"timestamp", "upstream_version", "nad_version", "trigger_type"}

Placeholder ==
    [timestamp |-> "", upstream_version |-> "", nad_version |-> "", trigger_type |-> ""]

\* stands for the description text of line 16
DefaultDescription == JStr("version mapping configuration")

Template0 ==
    [description |-> DefaultDescription,
     version_mappings |-> EmptyMap,
     sync_history |-> <<>>,
     last_sync |-> Placeholder]

----------------------------------------------------------------------------
(* Strings the runs draw from *)

Ver(i) == "33.0." \o ToString(i)
OldVer(i) == "32.0." \o ToString(i)
Suffixed(u) == u \o "-no-aja"

TwoDigits(n) == (IF n < 10 THEN "0" ELSE "") \o ToString(n)

\* strftime("%Y-%m-%dT%H:%M:%SZ") of the instant c seconds into 2025-01-01T00:00
now_iso(c) == "2025-01-01T00:" \o TwoDigits((c \div 60) % 60) \o ":" \o TwoDigits(c % 60) \o "Z"

----------------------------------------------------------------------------
(* _ensure_schema and load_version_mapping *)

Get(obj, key, default) == IF key \in DOMAIN obj THEN obj[key] ELSE default

\* mutants of Trailing: no truncation, and history[:MAX_HISTORY]
TrailingAll(s) == s

TrailingHead(s) == IF Len(s) <= MAX_HISTORY THEN s ELSE SubSeq(s, 1, MAX_HISTORY)

\* history[-MAX_HISTORY:]
Trailing(s) ==
    IF Len(s) <= MAX_HISTORY THEN s ELSE SubSeq(s, Len(s) - MAX_HISTORY + 1, Len(s))

IsPair(e) == e.t = "arr" /\ Len(e.v) = 2 /\ e.v[1].t = "str" /\ e.v[2].t = "str"

\* dict(x) raises for a number, null, a non-empty string, a list with a non-pair
DictRaises(x) ==
    CASE x.t = "obj" -> FALSE
      [] x.t = "arr" -> \E i \in 1..Len(x.v) : ~IsPair(x.v[i])
      [] x.t = "str" -> x.v # ""
      [] OTHER -> TRUE

RECURSIVE FromPairs(_)
FromPairs(s) ==
    IF s = <<>> THEN EmptyMap
    ELSE (s[Len(s)].v[1].v :> s[Len(s)].v[2].v) @@ FromPairs(SubSeq(s, 1, Len(s) - 1))

\* dict(x) where it does not raise
DictOf(x) ==
    CASE x.t = "obj" -> x.v
      [] x.t = "arr" -> FromPairs(x.v)
      [] OTHER -> EmptyMap

\* _ensure_schema raises: raw.get on a non-object, or dict() of version_mappings
EnsureRaises(raw) ==
    \/ raw.t # "obj"
    \/ DictRaises(Get(raw.v, "version_mappings", JObj(EmptyMap)))

ensure_schema(raw, template) ==
    LET history == Get(raw.v, "sync_history", JArr(<<>>))
        last_sync == Get(raw.v, "last_sync", JObj(EmptyMap))
    IN  [description |-> Get(raw.v, "description", template.description),
         version_mappings |-> DictOf(Get(raw.v, "version_mappings", JObj(EmptyMap))),
         sync_history |-> IF history.t = "arr" THEN Trailing(history.v) ELSE <<>>,
         last_sync |->
            IF last_sync.t = "obj"
            THEN [k \in Fields |-> Get(last_sync.v, k, "")]
            ELSE template.last_sync]

\* The record returned, whether its version_mappings is the template's own dict
\* (dict(SCHEMA_TEMPLATE) copies one level), and the file operations performed.
load_version_mapping(f, template) ==
    IF f.t = "absent"
    THEN [data |-> template, shared |-> TRUE, io |-> <<"exists">>, warned |-> FALSE]
    ELSE IF f.t = "malformed" \/ EnsureRaises(f.v)
    THEN [data |-> template, shared |-> TRUE, io |-> <<"exists", "read">>, warned |-> TRUE]
    ELSE [data |-> ensure_schema(f.v, template), shared |-> FALSE,
          io |-> <<"exists", "read">>, warned |-> FALSE]

----------------------------------------------------------------------------
(* _write_mapping *)

\* json.dump(data): what a later json.load of the file gives
Dump(data) ==
    Json(JObj([description |-> data.description,
               version_mappings |-> JObj(data.version_mappings),
               sync_history |-> JArr(data.sync_history),
               last_sync |-> JObj(data.last_sync)]))

\* wr: "ok"; "denied" (mkdir or open raises, nothing touched); "torn" (open
\* truncated the file and the dump raised before it was complete)
WriteOutcomes == {"ok", "denied", "torn"}

write_mapping(f, data, wr) ==
    CASE wr = "ok" -> Dump(data)
      [] wr = "denied" -> f
      [] OTHER -> Malformed

WriteIo(wr) == IF wr = "denied" THEN <<"mkdir">> ELSE <<"mkdir", "open_w", "dump">>

----------------------------------------------------------------------------
(* save_version_mapping *)

\* mutant of Valid: the NAD version is not checked
ValidUpstreamOnly(upstream_version, nad_version) == upstream_version # ""

\* lines 81-84
Valid(upstream_version, nad_version) == upstream_version # "" /\ nad_version # ""

\* line 87
SetItem(m, key, value) == (key :> value) @@ m

\* lines 89-94
Entry(upstream_version, nad_version, trigger_type, now) ==
    [timestamp |-> now_iso(now),
     upstream_version |-> upstream_version,
     nad_version |-> nad_version,
     trigger_type |-> IF trigger_type = "" THEN "auto" ELSE trigger_type]

\* sync.get("upstream_version") raises on an element that is no dict
FilterRaises(history) == \E i \in 1..Len(history) : history[i].t # "obj"

\* mutant of Keep: nothing is removed
KeepAll(sync, upstream_version) == TRUE

\* line 96
Keep(sync, upstream_version) ==
    ~("upstream_version" \in DOMAIN sync.v /\ sync.v["upstream_version"] = upstream_version)

Dedupe(history, upstream_version) ==
    LET Test(sync) == Keep(sync, upstream_version) IN SelectSeq(history, Test)

\* mutant of Mutated: last_sync is left as loaded
MutatedStaleLast(data, entry) ==
    [description |-> data.description,
     version_mappings |-> SetItem(data.version_mappings, entry.upstream_version, entry.nad_version),
     sync_history |-> Trailing(Append(Dedupe(data.sync_history, entry.upstream_version), JObj(entry))),
     last_sync |-> data.last_sync]

\* lines 87-99
Mutated(data, entry) ==
    [description |-> data.description,
     version_mappings |-> SetItem(data.version_mappings, entry.upstream_version, entry.nad_version),
     sync_history |-> Trailing(Append(Dedupe(data.sync_history, entry.upstream_version), JObj(entry))),
     last_sync |-> entry]

\* line 87 writes through to SCHEMA_TEMPLATE when load returned the template's dict
TemplateAfter(template, loaded, upstream_version, nad_version) ==
    IF loaded.shared
    THEN [template EXCEPT !.version_mappings = SetItem(@, upstream_version, nad_version)]
    ELSE template

NoVersion == <<>>

\* what the last operation was and did; version is get-upstream's result
NoResponse == [kind |-> "none", body |-> JNull]

\* what the last operation was and did: blank tells which of save-mapping's two
\* arguments were empty, resp and version are get-upstream's input and result,
\* data is the record a direct call of load_version_mapping returned
Op(op, outcome, exit, io) ==
    [op |-> op, outcome |-> outcome, exit |-> exit, io |-> io,
     blank |-> <<FALSE, FALSE>>, resp |-> NoResponse, version |-> NoVersion,
     data |-> Template0]

\* lines 81-84: the message of the ValueError raised
Missing(upstream_version, nad_version) ==
    IF upstream_version = "" THEN "ValueError: upstream version missing"
    ELSE "ValueError: NAD version missing"

SaveOp(u, d, outcome, exit, io) ==
    [Op("save-mapping", outcome, exit, io) EXCEPT !.blank = <<u = "", d = "">>]

\* save_version_mapping as the save-mapping command runs it (main, lines 202-208)
save_version_mapping(u, d, t, now, wr) ==
    LET loaded == load_version_mapping(MAPPING_FILE, SCHEMA_TEMPLATE)
        entry == Entry(u, d, t, now)
    IN  IF ~Valid(u, d)
        THEN /\ last' = SaveOp(u, d, Missing(u, d), 1, <<>>)
             /\ clean' = clean
             /\ UNCHANGED <<MAPPING_FILE, SCHEMA_TEMPLATE, log>>
        ELSE IF FilterRaises(loaded.data.sync_history)
        THEN /\ SCHEMA_TEMPLATE' = TemplateAfter(SCHEMA_TEMPLATE, loaded, u, d)
             /\ last' = SaveOp(u, d, "AttributeError", 1, loaded.io)
             /\ clean' = FALSE
             /\ UNCHANGED <<MAPPING_FILE, log>>
        ELSE /\ SCHEMA_TEMPLATE' = TemplateAfter(SCHEMA_TEMPLATE, loaded, u, d)
             /\ MAPPING_FILE' = write_mapping(MAPPING_FILE, Mutated(loaded.data, entry), wr)
             /\ last' = SaveOp(u, d,
                               IF wr = "ok" THEN "ok" ELSE "OSError",
                               IF wr = "ok" THEN 0 ELSE 1,
                               loaded.io \o WriteIo(wr))
             /\ log' = IF wr = "ok" THEN Append(log, entry) ELSE log
             /\ clean' = (clean /\ wr = "ok")

----------------------------------------------------------------------------
(* list_mappings *)

Complete(entry) == entry.t = "obj" /\ Fields \subseteq DOMAIN entry.v

\* line 154 raises on the first entry, from the end, that is no dict (TypeError)
\* or lacks one of the four keys (KeyError)
ListRaises(history) == \E i \in 1..Len(history) : ~Complete(history[i])

ListError(history) ==
    LET bad == {i \in 1..Len(history) : ~Complete(history[i])}
        first == CHOOSE i \in bad : \A j \in bad : j <= i
    IN  IF history[first].t = "obj" THEN "KeyError" ELSE "TypeError"

\* the list command (main, lines 210-212); an exception that main does not catch
\* ends the interpreter with exit code 1
list_mappings ==
    LET loaded == load_version_mapping(MAPPING_FILE, SCHEMA_TEMPLATE)
        history == loaded.data.sync_history
        mappings == loaded.data.version_mappings
    IN  /\ last' =
            IF history = <<>> /\ DOMAIN mappings = {}
            THEN Op("list", "nodata", 0, loaded.io)
            ELSE IF ListRaises(history)
            THEN Op("list", ListError(history), 1, loaded.io)
            ELSE Op("list", "ok", 0, loaded.io)
        /\ UNCHANGED <<MAPPING_FILE, SCHEMA_TEMPLATE, log, clean>>

----------------------------------------------------------------------------
(* get_upstream_version *)

TagChars == {"v", "3", "."}

RECURSIVE SeqsUpTo(_, _)
SeqsUpTo(S, n) ==
    IF n = 0 THEN {<<>>}
    ELSE LET shorter == SeqsUpTo(S, n - 1)
         IN  shorter \cup {Append(s, c) : s \in shorter, c \in S}

Tags == SeqsUpTo(TagChars, MaxTagLen)

\* what curl hands back: a failure, a body that is not JSON, or a JSON body
Release(tag) == [kind |-> "json", body |-> JObj([tag_name |-> tag])]

Responses ==
    {[kind |-> "curl_failed", body |-> JNull],
     [kind |-> "not_json", body |-> JNull],
     [kind |-> "json", body |-> JArr(<<>>)],
     [kind |-> "json", body |-> JObj(EmptyMap)],
     Release(JNull), Release(JNum(0)), Release(JNum(33))}
    \cup {Release(JStr(tag)) : tag \in Tags}

\* str.lstrip(chars): drops every leading character that is in chars
RECURSIVE lstrip(_, _)
lstrip(s, chars) ==
    IF s # <<>> /\ s[1] \in chars THEN lstrip(Tail(s), chars) ELSE s

\* release_data.get("tag_name") or ""
TagOrEmpty(body) ==
    LET tag == Get(body.v, "tag_name", JNull)
    IN  IF tag.t = "null" \/ (tag.t = "num" /\ tag.v = 0) \/ (tag.t = "str" /\ tag.v = <<>>)
        THEN JStr(<<>>)
        ELSE tag

\* lines 130-139: the version returned, NoVersion for None
ParseVersion(resp) ==
    IF resp.kind # "json" \/ resp.body.t # "obj" THEN NoVersion
    ELSE IF TagOrEmpty(resp.body).t # "str" THEN NoVersion
    ELSE lstrip(TagOrEmpty(resp.body).v, {"v"})

\* the get-upstream command (main, lines 195-200)
get_upstream_version(resp) ==
    LET version == ParseVersion(resp)
    IN  /\ last' = [Op("get-upstream",
                       IF version = NoVersion THEN "none" ELSE "ok",
                       IF version = NoVersion THEN 1 ELSE 0, <<>>)
                    EXCEPT !.version = version, !.resp = resp]
        /\ UNCHANGED <<MAPPING_FILE, SCHEMA_TEMPLATE, log, clean>>

----------------------------------------------------------------------------
(* Backing files a run may start from *)

LegacyEntry(u) ==
    JObj([timestamp |-> "2024-12-31T00:00:00Z", upstream_version |-> u,
          nad_version |-> Suffixed(u), trigger_type |-> "auto"])

LegacyHistory(n) == [i \in 1..n |-> LegacyEntry(OldVer(i))]

LegacyMap(n) == [u \in {OldVer(i) : i \in 1..n} |-> Suffixed(u)]

Document(description, version_mappings, sync_history, last_sync) ==
    Json(JObj([description |-> description, version_mappings |-> version_mappings,
               sync_history |-> sync_history, last_sync |-> last_sync]))

WellFormed(n) ==
    Document(JStr("legacy"), JObj(LegacyMap(n)), JArr(LegacyHistory(n)),
             JObj(LegacyEntry(OldVer(n)).v))

Without(f, key) == Json(JObj([k \in DOMAIN f.v.v \ {key} |-> f.v.v[k]]))

WrongMappings ==
    {JNum(5), JNull, JStr(""), JStr("none"), JArr(<<>>), JArr(<<JNum(1)>>)}

PartialEntries ==
    {JObj([upstream_version |-> Ver(1), nad_version |-> "33.0.1-old"]),
     JObj([timestamp |-> "2024-12-31T00:00:00Z", nad_version |-> "33.0.1-old"]),
     JStr(Ver(1))}

HistoryLengths == {1, MAX_HISTORY - 1, MAX_HISTORY, MAX_HISTORY + 2}

InitFiles ==
    {Absent, Malformed, Json(JArr(<<>>)), Json(JObj(EmptyMap))}
    \cup {WellFormed(n) : n \in HistoryLengths}
    \cup {Document(JStr("legacy"), x, JArr(LegacyHistory(2)), JObj(LegacyEntry(OldVer(2)).v))
            : x \in WrongMappings}
    \cup {Without(WellFormed(2), key)
            : key \in {"description", "version_mappings", "sync_history", "last_sync"}}
    \cup {Document(JStr("legacy"), JObj(LegacyMap(1)), JStr("none"), JArr(<<>>))}
    \cup {Document(JStr("legacy"), JObj(LegacyMap(1)), JArr(<<LegacyEntry(OldVer(1)), e>>),
                   JObj(LegacyEntry(OldVer(1)).v)) : e \in PartialEntries}
    \cup {Document(JStr("legacy"), JObj(LegacyMap(1)),
                   JArr(<<LegacyEntry(Ver(1)), LegacyEntry(OldVer(1)), LegacyEntry(Ver(1))>>),
                   JObj(LegacyEntry(Ver(1)).v))}
    \cup {Document(JStr("legacy"), JObj(Ver(2) :> "33.0.2-custom"), JArr(<<>>), JObj(EmptyMap))}

----------------------------------------------------------------------------
(* Spec: any backing file, a few operations *)

NoOp == Op("none", "ok", 0, <<>>)

UpstreamArgs == {"", Ver(1), Ver(2)}
NadArgs(u) == {"", Suffixed(u), "33.0.9-custom"}
TriggerArgs == {"", "manual"}

Init ==
    /\ MAPPING_FILE \in InitFiles
    /\ SCHEMA_TEMPLATE = Template0
    /\ clock = 0
    /\ last = NoOp
    /\ log = <<>>
    /\ clean = TRUE
    /\ nops = 0
    /\ fresh = 0
    /\ pc = <<>>
    /\ mem = <<>>

\* the clock reading of an operation: the previous reading or a second later
Now == {c \in {clock, clock + 1} : c <= MaxClock}

Counted ==
    /\ nops < MaxOps
    /\ nops' = nops + 1
    /\ UNCHANGED <<fresh, pc, mem>>

SaveMapping ==
    /\ Counted
    /\ \E u \in UpstreamArgs, t \in TriggerArgs, wr \in WriteOutcomes, now \in Now :
         \E d \in NadArgs(u) :
            /\ clock' = now
            /\ save_version_mapping(u, d, t, now, wr)

List ==
    /\ Counted
    /\ clock' = clock
    /\ list_mappings

\* load_version_mapping called on its own in the running interpreter
Load ==
    /\ Counted
    /\ clock' = clock
    /\ LET loaded == load_version_mapping(MAPPING_FILE, SCHEMA_TEMPLATE)
       IN  last' = [Op("load", IF loaded.warned THEN "warned" ELSE "ok", 0, loaded.io)
                    EXCEPT !.data = loaded.data]
    /\ UNCHANGED <<MAPPING_FILE, SCHEMA_TEMPLATE, log, clean>>

\* the interpreter exits and the next command starts a new one
NewProcess ==
    /\ SCHEMA_TEMPLATE # Template0
    /\ SCHEMA_TEMPLATE' = Template0
    /\ UNCHANGED <<MAPPING_FILE, clock, last, log, clean, nops, fresh, pc, mem>>

Next == SaveMapping \/ List \/ Load \/ NewProcess

Spec == Init /\ [][Next]_vars

----------------------------------------------------------------------------
(* SpecSeq: an empty store, then save-mapping calls one second apart, each   *)
(* with a new upstream version, and a few other save calls among them        *)

InitSeq ==
    /\ MAPPING_FILE = Absent
    /\ SCHEMA_TEMPLATE = Template0
    /\ clock = 0
    /\ last = NoOp
    /\ log = <<>>
    /\ clean = TRUE
    /\ nops = 0
    /\ fresh = 0
    /\ pc = <<>>
    /\ mem = <<>>

SaveFresh ==
    /\ fresh < MaxFresh
    /\ fresh' = fresh + 1
    /\ clock' = clock + 1
    /\ save_version_mapping(Ver(fresh + 1), Suffixed(Ver(fresh + 1)), "", clock + 1, "ok")
    /\ UNCHANGED <<nops, pc, mem>>

Extra ==
    /\ nops < MaxExtra
    /\ nops' = nops + 1
    /\ clock' = clock + 1
    /\ UNCHANGED <<fresh, pc, mem>>

\* an upstream version recorded before is recorded again
SaveAgain ==
    /\ Extra
    /\ \E i \in {1, fresh - 1, fresh} :
         /\ i >= 1
         /\ save_version_mapping(Ver(i), "33.0.9-custom", "manual", clock + 1, "ok")

SaveFailed ==
    /\ Extra
    /\ \E wr \in WriteOutcomes \ {"ok"} :
         save_version_mapping(OldVer(1), Suffixed(OldVer(1)), "manual", clock + 1, wr)

SaveRejected ==
    /\ Extra
    /\ \E u \in {"", Ver(1)}, d \in {"", "33.0.9-custom"} :
         /\ ~Valid(u, d)
         /\ save_version_mapping(u, d, "manual", clock + 1, "ok")

NextSeq == SaveFresh \/ SaveAgain \/ SaveFailed \/ SaveRejected \/ NewProcess

SpecSeq == InitSeq /\ [][NextSeq]_vars

----------------------------------------------------------------------------
(* SpecFetch: get-upstream on every response *)

NextFetch == \E resp \in Responses :
    /\ get_upstream_version(resp)
    /\ UNCHANGED <<clock, nops, fresh, pc, mem>>

SpecFetch == InitSeq /\ [][NextFetch]_vars

----------------------------------------------------------------------------
(* SpecRace: two save-mapping commands, each its own interpreter, recording  *)
(* distinct upstream versions in the same backing file.  A command takes two *)
(* steps, the part up to the write (lines 81-99) and the write (line 102).   *)

Procs == {1, 2}

RaceFiles ==
    {Absent, Malformed} \cup {WellFormed(n) : n \in {1, MAX_HISTORY - 1, MAX_HISTORY}}

\* mem[p]: the mapping_data of p, its entry, and how many writes preceded its load
Idle == [data |-> Template0, entry |-> Placeholder, writes |-> 0]

InitRace ==
    /\ MAPPING_FILE \in RaceFiles
    /\ SCHEMA_TEMPLATE = Template0
    /\ clock = 0
    /\ last = NoOp
    /\ log = <<>>
    /\ clean = TRUE
    /\ nops = 0
    /\ fresh = 0
    /\ pc = [p \in Procs |-> "start"]
    /\ mem = [p \in Procs |-> Idle]

RaceLoad(p) ==
    /\ pc[p] = "start"
    /\ \E now \in Now, d \in {Suffixed(Ver(p)), "33.0.9-custom"} :
         LET loaded == load_version_mapping(MAPPING_FILE, Template0)
             entry == Entry(Ver(p), d, "manual", now)
         IN  /\ clock' = now
             /\ IF FilterRaises(loaded.data.sync_history)
                THEN /\ pc' = [pc EXCEPT ![p] = "done"]
                     /\ mem' = mem
                ELSE /\ pc' = [pc EXCEPT ![p] = "loaded"]
                     /\ mem' = [mem EXCEPT ![p] = [data |-> Mutated(loaded.data, entry),
                                                   entry |-> entry,
                                                   writes |-> nops]]
    /\ UNCHANGED <<MAPPING_FILE, SCHEMA_TEMPLATE, last, log, clean, nops, fresh>>

RaceWrite(p) ==
    /\ pc[p] = "loaded"
    /\ MAPPING_FILE' = write_mapping(MAPPING_FILE, mem[p].data, "ok")
    /\ pc' = [pc EXCEPT ![p] = "done"]
    /\ log' = Append(log, mem[p].entry)
    /\ nops' = nops + 1
    /\ last' = Op("save-mapping", "ok", 0, <<"exists", "read">> \o WriteIo("ok"))
    /\ UNCHANGED <<SCHEMA_TEMPLATE, clock, clean, fresh, mem>>

NextRace == \E p \in Procs : RaceLoad(p) \/ RaceWrite(p)

SpecRace == InitRace /\ [][NextRace]_vars

----------------------------------------------------------------------------
(* Properties *)

IsDocument == MAPPING_FILE.t = "json" /\ MAPPING_FILE.v.t = "obj"
FileHistory == MAPPING_FILE.v.v["sync_history"].v
FileMappings == MAPPING_FILE.v.v["version_mappings"].v
FileLastSync == MAPPING_FILE.v.v["last_sync"].v

\* what a new interpreter loads from the backing file
Persisted == load_version_mapping(MAPPING_FILE, Template0).data

SaveSucceeded == last.op = "save-mapping" /\ last.outcome = "ok"

DistinctVersions(entries) ==
    \A i, j \in 1..Len(entries) :
        i # j => entries[i].upstream_version # entries[j].upstream_version

Occurrences(history, upstream_version) ==
    {i \in 1..Len(history) : Get(history[i].v, "upstream_version", "") = upstream_version}

\* C1: once a save call has written the backing file, whatever the file held
\* before (absent, malformed, a history of any length), the sync_history in the
\* file has at most MAX_HISTORY entries.
C1_HistoryBounded ==
    (log # <<>> /\ IsDocument) => Len(FileHistory) <= MAX_HISTORY

\* a save call wrote a full history whose oldest legacy entry was dropped
C1_Witness ==
    /\ SaveSucceeded
    /\ IsDocument
    /\ Len(FileHistory) = MAX_HISTORY
    /\ FileHistory[MAX_HISTORY] = JObj(log[Len(log)])
    /\ FileHistory[1] = LegacyEntry(OldVer(2))

\* C2: from an empty store, after N > MAX_HISTORY successful save calls with
\* pairwise distinct upstream versions (rejected calls aside), the history in
\* the file is exactly the events of the last MAX_HISTORY calls, oldest first,
\* and no event of the first N - MAX_HISTORY calls is in it.
C2_LastTwentyInOrder ==
    (clean /\ Len(log) > MAX_HISTORY /\ DistinctVersions(log)) =>
        /\ IsDocument
        /\ Len(FileHistory) = MAX_HISTORY
        /\ \A i \in 1..MAX_HISTORY :
              FileHistory[i] = JObj(log[Len(log) - MAX_HISTORY + i])
        /\ \A j \in 1..(Len(log) - MAX_HISTORY) :
              \A i \in 1..Len(FileHistory) : FileHistory[i] # JObj(log[j])

C2_Witness ==
    /\ clean
    /\ SaveSucceeded
    /\ Len(log) = MAX_HISTORY + 2
    /\ DistinctVersions(log)
    /\ FileHistory[1] = JObj(log[3])

\* the last successful save recorded a version that an earlier one had recorded
Repeated ==
    /\ SaveSucceeded
    /\ \E j \in 1..(Len(log) - 1) :
          log[j].upstream_version = log[Len(log)].upstream_version

\* C3: right after save(v, d2) that follows an earlier save(v, d1), with other
\* successful saves possibly between them, the history in the file has exactly
\* one entry for v, it is the last element and carries d2, and
\* version_mappings[v] = d2.
C3_OneEntryPerVersion ==
    Repeated =>
        LET entry == log[Len(log)]
        IN  /\ IsDocument
            /\ Cardinality(Occurrences(FileHistory, entry.upstream_version)) = 1
            /\ FileHistory[Len(FileHistory)] = JObj(entry)
            /\ entry.upstream_version \in DOMAIN FileMappings
            /\ FileMappings[entry.upstream_version] = entry.nad_version

\* v was saved, other versions were saved, v was saved again with another NAD
\* version while its first entry was still in the history
C3_Witness ==
    /\ Repeated
    /\ \E j \in 1..(Len(log) - 2) :
          /\ log[j].upstream_version = log[Len(log)].upstream_version
          /\ log[j].nad_version # log[Len(log)].nad_version
    /\ Len(FileHistory) = Len(log) - 1

\* C4: from an empty store, while every save call succeeded or was rejected by
\* validation, the persisted last_sync is the all-empty placeholder if no call
\* has succeeded, and otherwise the event of the most recent successful call,
\* which is also the last element of the persisted history.
C4_LastSyncIsLatest ==
    clean =>
        IF log = <<>>
        THEN Persisted.last_sync = Placeholder /\ Persisted.sync_history = <<>>
        ELSE /\ IsDocument
             /\ FileLastSync = log[Len(log)]
             /\ Persisted.last_sync = log[Len(log)]
             /\ FileHistory[Len(FileHistory)] = JObj(log[Len(log)])

\* a call was rejected after two had succeeded
C4_Witness ==
    /\ clean
    /\ Len(log) >= 2
    /\ last.op = "save-mapping"
    /\ last.exit = 1
    /\ last.blank # <<FALSE, FALSE>>

\* C5: a save-mapping command whose upstream version or NAD version is empty
\* exits with code 1 on a ValueError, performs no file operation, and leaves
\* the backing file, its existence, the mappings and the history as they were.
C5_RejectedBeforeIO ==
    [][(last'.op = "save-mapping" /\ nops' = nops + 1
            /\ last'.blank # <<FALSE, FALSE>>) =>
          /\ MAPPING_FILE' = MAPPING_FILE
          /\ SCHEMA_TEMPLATE' = SCHEMA_TEMPLATE
          /\ log' = log
          /\ last'.io = <<>>
          /\ last'.exit = 1
          /\ last'.outcome = (IF last'.blank[1]
                              THEN "ValueError: upstream version missing"
                              ELSE "ValueError: NAD version missing")]_vars

\* an empty NAD version was rejected while a backing file existed
C5_Witness ==
    /\ last.op = "save-mapping"
    /\ last.blank = <<FALSE, TRUE>>
    /\ last.exit = 1
    /\ IsDocument

\* C6 (refuted by the code): when the file is a JSON object whose
\* version_mappings is absent or no mapping, load returns empty mappings and
\* takes description, history (its trailing MAX_HISTORY elements) and
\* last_sync from the file as usual.
C6_FieldsIndependent ==
    (last.op = "load" /\ IsDocument
        /\ Get(MAPPING_FILE.v.v, "version_mappings", JNull).t # "obj") =>
        LET raw == MAPPING_FILE.v
            history == Get(raw.v, "sync_history", JArr(<<>>))
            last_sync == Get(raw.v, "last_sync", JObj(EmptyMap))
        IN  last.data =
               [description |-> Get(raw.v, "description", Template0.description),
                version_mappings |-> EmptyMap,
                sync_history |-> IF history.t = "arr" THEN Trailing(history.v) ELSE <<>>,
                last_sync |-> IF last_sync.t = "obj"
                              THEN [k \in Fields |-> Get(last_sync.v, k, "")]
                              ELSE Placeholder]

\* C7 (refuted by the code): the list command exits with code 0 and leaves
\* the backing file unchanged, whatever the file holds.
C7_ListAlwaysZero ==
    [][(last'.op = "list" /\ nops' = nops + 1) =>
          (last'.exit = 0 /\ MAPPING_FILE' = MAPPING_FILE)]_vars

\* C8 (refuted by the code): at any point within one interpreter, a load
\* while the backing file does not exist returns the default record (empty
\* mappings, empty history, placeholder last_sync) and the file still does
\* not exist afterwards.
C8_LoadAbsentIsDefault ==
    [][(last'.op = "load" /\ nops' = nops + 1 /\ MAPPING_FILE.t = "absent") =>
          (last'.data = Template0 /\ MAPPING_FILE'.t = "absent")]_vars

\* removes one leading "v"
StripOneV(tag) == IF tag # <<>> /\ tag[1] = "v" THEN Tail(tag) ELSE tag

\* C9 (refuted by the code): for every release tag string, get-upstream
\* returns the tag without its first character when that is "v", the tag
\* itself otherwise, and nothing when that result is empty.
C9_StripsOneV ==
    (last.op = "get-upstream" /\ last.resp.kind = "json" /\ last.resp.body.t = "obj"
        /\ Get(last.resp.body.v, "tag_name", JNull).t = "str") =>
        /\ last.version = StripOneV(last.resp.body.v["tag_name"].v)
        /\ last.exit = (IF last.version = NoVersion THEN 1 ELSE 0)

BothDone == \A p \in Procs : pc[p] = "done"
BothLoadedFirst == \A p \in Procs : mem[p].writes = 0

\* C10: when both commands load before either writes, the file ends as the
\* later writer left it: its entry is last, its mapping is there, and the
\* earlier writer's version is in neither the mappings nor the history; and
\* under every interleaving a written file has at most MAX_HISTORY entries and
\* a last_sync equal to its last history element.
C10_LastWriterWins ==
    /\ (nops > 0) =>
          /\ IsDocument
          /\ Len(FileHistory) <= MAX_HISTORY
          /\ JObj(FileLastSync) = FileHistory[Len(FileHistory)]
    /\ (BothDone /\ BothLoadedFirst /\ Len(log) = 2) =>
          /\ FileHistory[Len(FileHistory)] = JObj(log[2])
          /\ Get(FileMappings, log[2].upstream_version, "") = log[2].nad_version
          /\ log[1].upstream_version \notin DOMAIN FileMappings
          /\ Occurrences(FileHistory, log[1].upstream_version) = {}

\* both loaded a full history, then both wrote
C10_Witness ==
    /\ BothDone
    /\ BothLoadedFirst
    /\ Len(log) = 2
    /\ Len(FileHistory) = MAX_HISTORY
    /\ FileHistory[1] = LegacyEntry(OldVer(2))

====
